---- MODULE Spec2Model ----
(***************************************************************************)
(* Model of the deep-research workflow of src/main.py: the GraphState      *)
(* record, the four node functions (start_workflow, run_research,          *)
(* run_synthesis, run_answer_drafting), the router route_next_step, the    *)
(* compiled graph `workflow` and the entry point run_deep_research.        *)
(*                                                                         *)
(* The search tool and the three language-model chains are external: each  *)
(* call either returns a value drawn from a small set or raises.  A run    *)
(* is one thread of control; its interleaving points are the external      *)
(* calls and the hand-over between graph nodes.                            *)
(***************************************************************************)
EXTENDS Naturals, Sequences, FiniteSets, TLC

VARIABLES
    state,    \* the GraphState dict threaded through the nodes
    pc,       \* position of the run inside run_deep_research / the graph
    calls,    \* record of the external calls made so far, in order
    entries,  \* record of the nodes entered so far, with current_state on entry
    error,    \* None, or the name of the call whose exception left the run
    result,   \* None, or the dict returned by run_deep_research
    arg,      \* None, or the query run_deep_research was called with
    request,  \* None, or the body of the POST the endpoint is serving
    response, \* None, or the response the endpoint gave
    others    \* the runs in progress other than the one taking steps

\* What belongs to the host of a run rather than to the run.
host == <<request, response, others>>

vars == <<state, pc, calls, entries, error, result, arg, request, response, others>>

-----------------------------------------------------------------------------
(* Bounds and input sets                                                   *)

\* Largest number of records one search returns in the model.
MaxResults == 2

\* Queries given to run_deep_research.
Queries == {"What is the capital of France?", "tla"}

\* Keys of a search record.  The search tool always gives the snippet
\* (content); title, url and published_date may each be missing.
ResultKeys == {"title", "url", "published_date", "content"}
OptionalKeys == {"title", "url", "published_date"}

\* The values each key may have.
FieldValues ==
    [title          |-> {"", "Paris"},
     url            |-> {"https://example.com/paris"},
     published_date |-> {"2024-01-01"},
     content        |-> {"snippet"}]

AllFieldValues == UNION {FieldValues[k] : k \in ResultKeys}

\* A search record: a dict with content and any of the optional keys.
SearchRecords ==
    UNION { {r \in [D \cup {"content"} -> AllFieldValues] :
                \A k \in DOMAIN r : r[k] \in FieldValues[k]}
            : D \in SUBSET OptionalKeys }

\* What one search may return: a list of at most MaxResults records.
SearchOutputs == UNION {[1..n -> SearchRecords] : n \in 0..MaxResults}

\* What each chain may return (StrOutputParser yields a str).
ResearcherOutputs == {"notes-1", "notes-2"}
SynthesizerOutputs == {"synthesis-1", "synthesis-2"}
DrafterOutputs == {"answer-1", "answer-2"}

-----------------------------------------------------------------------------
(* Python values                                                           *)

\* Optional[T]: None is the empty set, a present value x is {x}.
None == {}
Some(x) == {x}
IsSet(o) == o # None
Val(o) == CHOOSE x \in o : TRUE

\* `not v` for an Optional[List]: None and the empty list are both falsy.
Falsy(o) == o = None \/ Val(o) = <<>>

\* dict.get(key, default)
get(d, key, default) == IF key \in DOMAIN d THEN d[key] ELSE default

\* class AgentState(Enum)
RESEARCH == "research"
SYNTHESIS == "synthesis"
ANSWER == "answer"
COMPLETE == "complete"
AgentState == {RESEARCH, SYNTHESIS, ANSWER, COMPLETE}

\* langgraph's END sentinel
END == "__end__"

\* GraphState.__init__
GraphState(query) ==
    [query                |-> query,
     search_results       |-> None,
     research_notes       |-> None,
     sources              |-> <<>>,
     synthesized_research |-> None,
     final_answer         |-> None,
     messages             |-> <<>>,
     current_state        |-> RESEARCH]

Message(role, content) == [role |-> role, content |-> content]

-----------------------------------------------------------------------------
(* Node functions                                                          *)

\* Mutant of start_workflow: the notice is stored as the query as well.
start_workflow_rewrites_query(s) ==
    [s EXCEPT !.messages =
                  Append(@, Message("system",
                                    "Starting research workflow for: " \o s.query)),
              !.query = "Starting research workflow for: " \o s.query]

\* start_workflow
start_workflow(s) ==
    [s EXCEPT !.messages =
        Append(@, Message("system", "Starting research workflow for: " \o s.query))]

\* Mutant of research_search: sources are derived as soon as the search
\* returns.
research_search_eager(s, search_results) ==
    [s EXCEPT !.search_results = Some(search_results),
              !.sources = [i \in 1..Len(search_results) |->
                              [title          |-> get(search_results[i], "title", "Unknown Title"),
                               url            |-> get(search_results[i], "url", "Unknown URL"),
                               published_date |-> get(search_results[i], "published_date", "Unknown Date")]],
              !.messages =
                  Append(@, Message("system",
                                    "Performed initial search for: " \o s.query))]

\* run_research, the branch taken when search_results is falsy, after
\* search_tool.invoke returned search_results.
research_search(s, search_results) ==
    [s EXCEPT !.search_results = Some(search_results),
              !.messages =
                  Append(@, Message("system",
                                    "Performed initial search for: " \o s.query))]

\* Mutant of DeriveSources: a record without a url yields no source.
DeriveSources_skip(search_results) ==
    LET kept == SelectSeq(search_results, LAMBDA r : "url" \in DOMAIN r)
    IN  [i \in 1..Len(kept) |->
            [title          |-> get(kept[i], "title", "Unknown Title"),
             url            |-> get(kept[i], "url", "Unknown URL"),
             published_date |-> get(kept[i], "published_date", "Unknown Date")]]

\* Mutant of DeriveSources: a missing field is left blank, and the record's
\* other keys are carried over.
DeriveSources_blank(search_results) ==
    [i \in 1..Len(search_results) |->
        [k \in DOMAIN search_results[i] \cup {"title", "url", "published_date"} |->
            get(search_results[i], k, "")]]

\* run_research, the loop that derives sources from search_results.
DeriveSources(search_results) ==
    [i \in 1..Len(search_results) |->
        [title          |-> get(search_results[i], "title", "Unknown Title"),
         url            |-> get(search_results[i], "url", "Unknown URL"),
         published_date |-> get(search_results[i], "published_date", "Unknown Date")]]

\* Mutant of research_finish: messages is assigned instead of appended to.
research_finish_rewrite(s, research_notes) ==
    [s EXCEPT !.research_notes = Some(research_notes),
              !.sources = DeriveSources(Val(s.search_results)),
              !.messages = <<Message("assistant", "Research phase completed.")>>,
              !.current_state = SYNTHESIS]

\* run_research, from the return of researcher_chain.invoke to the end.
research_finish(s, research_notes) ==
    [s EXCEPT !.research_notes = Some(research_notes),
              !.sources = DeriveSources(Val(s.search_results)),
              !.messages = Append(@, Message("assistant", "Research phase completed.")),
              !.current_state = SYNTHESIS]

\* run_synthesis, from the return of synthesizer_chain.invoke to the end.
run_synthesis(s, synthesized_research) ==
    [s EXCEPT !.synthesized_research = Some(synthesized_research),
              !.messages = Append(@, Message("assistant", "Synthesis phase completed.")),
              !.current_state = ANSWER]

\* Mutant of run_answer_drafting: current_state is left as it was.
run_answer_drafting_no_tag(s, final_answer) ==
    [s EXCEPT !.final_answer = Some(final_answer),
              !.messages =
                  Append(@, Message("assistant", "Answer drafting phase completed."))]

\* run_answer_drafting, from the return of drafter_chain.invoke to the end.
run_answer_drafting(s, final_answer) ==
    [s EXCEPT !.final_answer = Some(final_answer),
              !.messages =
                  Append(@, Message("assistant", "Answer drafting phase completed.")),
              !.current_state = COMPLETE]

\* Mutant of route_next_step: after research the router names research again.
route_next_step_revisit(s) ==
    IF s.current_state = RESEARCH THEN "synthesis"
    ELSE IF s.current_state = SYNTHESIS THEN "research"
    ELSE IF s.current_state = ANSWER THEN "complete"
    ELSE END

\* Mutant of route_next_step: only RESEARCH is routed on, the rest ends the graph.
route_next_step_stop_early(s) ==
    IF s.current_state = RESEARCH THEN "synthesis"
    ELSE END

\* route_next_step
route_next_step(s) ==
    IF s.current_state = RESEARCH THEN "synthesis"
    ELSE IF s.current_state = SYNTHESIS THEN "answer"
    ELSE IF s.current_state = ANSWER THEN "complete"
    ELSE END

\* The nodes registered by workflow.add_node.
Nodes == {"start", "research", "synthesis", "answer"}

\* The chain a node invokes and the values that chain may return.
ChainOf(node) == IF node = "synthesis" THEN "synthesizer" ELSE "drafter"
OutputsOf(node) == IF node = "synthesis" THEN SynthesizerOutputs ELSE DrafterOutputs
NodeFn(node, s, out) ==
    IF node = "synthesis" THEN run_synthesis(s, out) ELSE run_answer_drafting(s, out)

\* run_deep_research, the dict it returns.
workflow_path(messages) ==
    LET assistant == SelectSeq(messages, LAMBDA m : m.role = "assistant")
    IN  [i \in 1..Len(assistant) |-> assistant[i].content]

Projection(s) ==
    [query         |-> s.query,
     final_answer  |-> s.final_answer,
     sources       |-> s.sources,
     workflow_path |-> workflow_path(s.messages)]

-----------------------------------------------------------------------------
(* The run                                                                 *)

\* One external call as a recording stub sees it: the callee, whether it
\* returned, and what it returned (None when it raised).
Call(callee, ok, out) == [callee |-> callee, ok |-> ok, out |-> out]

\* One node entry as an instrumented run sees it: the node, the
\* current_state it reads on entry, and the whole state on entry.
Entry(node, s) == [node |-> node, observed |-> s.current_state, snapshot |-> s]

\* run_deep_research up to deep_research_system.invoke(initial_state).
Init ==
    /\ \E q \in Queries : state = GraphState(q) /\ arg = Some(q)
    /\ pc = "start"
    /\ calls = <<>>
    /\ entries = <<>>
    /\ error = None
    /\ result = None
    /\ request = None
    /\ response = None
    /\ others = <<>>

\* Node "start"; the edge start -> research.
StartWorkflow ==
    /\ pc = "start"
    /\ entries' = Append(entries, Entry("start", state))
    /\ state' = start_workflow(state)
    /\ pc' = "research"
    /\ UNCHANGED <<calls, error, result, arg, host>>

\* Mutant of ResearchSearch: the exception of the search is caught and the
\* stage carries on with an empty result list.
ResearchSearch_swallow ==
    /\ pc = "research"
    /\ entries' = Append(entries, Entry("research", state))
    /\ IF Falsy(state.search_results)
       THEN \/ \E r \in SearchOutputs :
                 /\ state' = research_search(state, r)
                 /\ calls' = Append(calls, Call("search", TRUE, Some(r)))
                 /\ pc' = "research_llm"
                 /\ UNCHANGED error
            \/ /\ calls' = Append(calls, Call("search", FALSE, None))
               /\ pc' = "research_llm"
               /\ error' = Some("search")
               /\ state' = research_search(state, <<>>)
       ELSE /\ pc' = "research_llm"
            /\ UNCHANGED <<state, calls, error>>
    /\ UNCHANGED <<result, arg, host>>

\* Node "research", up to the call of researcher_chain.invoke: the guarded
\* search, which returns a list or raises.
ResearchSearch ==
    /\ pc = "research"
    /\ entries' = Append(entries, Entry("research", state))
    /\ IF Falsy(state.search_results)
       THEN \/ \E r \in SearchOutputs :
                 /\ state' = research_search(state, r)
                 /\ calls' = Append(calls, Call("search", TRUE, Some(r)))
                 /\ pc' = "research_llm"
                 /\ UNCHANGED error
            \/ /\ calls' = Append(calls, Call("search", FALSE, None))
               /\ pc' = "raised"
               /\ error' = Some("search")
               /\ UNCHANGED state
       ELSE /\ pc' = "research_llm"
            /\ UNCHANGED <<state, calls, error>>
    /\ UNCHANGED <<result, arg, host>>

\* Mutant of ResearchLLM: a chain call that raised is made again.
ResearchLLM_retry ==
    /\ pc = "research_llm"
    /\ \/ \E out \in ResearcherOutputs :
            /\ state' = research_finish(state, out)
            /\ calls' = Append(calls, Call("researcher", TRUE, Some(out)))
            /\ pc' = "route"
            /\ UNCHANGED error
       \/ /\ calls' = Append(calls, Call("researcher", FALSE, None))
          /\ pc' = "research_llm"
          /\ error' = Some("researcher")
          /\ UNCHANGED state
    /\ UNCHANGED <<entries, result, arg, host>>

\* Node "research", from researcher_chain.invoke on: the chain returns the
\* notes or raises.
ResearchLLM ==
    /\ pc = "research_llm"
    /\ \/ \E out \in ResearcherOutputs :
            /\ state' = research_finish(state, out)
            /\ calls' = Append(calls, Call("researcher", TRUE, Some(out)))
            /\ pc' = "route"
            /\ UNCHANGED error
       \/ /\ calls' = Append(calls, Call("researcher", FALSE, None))
          /\ pc' = "raised"
          /\ error' = Some("researcher")
          /\ UNCHANGED state
    /\ UNCHANGED <<entries, result, arg, host>>

\* The conditional edge added after "research", "synthesis" and "answer":
\* the router names the next node and END stops the graph.  For a name that
\* is neither, the graph library decides: depending on its version it
\* raises, or it drops the write and the graph stops with nothing to run.
Route ==
    /\ pc = "route"
    /\ LET next == route_next_step(state)
       IN  IF next = END
           THEN pc' = "end" /\ UNCHANGED error
           ELSE IF next \in Nodes
                THEN pc' = next /\ UNCHANGED error
                ELSE \/ pc' = "raised" /\ error' = Some("router")
                     \/ pc' = "end" /\ UNCHANGED error
    /\ UNCHANGED <<state, calls, entries, result, arg, host>>

\* Node "synthesis" or "answer", whichever the router named: its chain
\* returns the text or raises.
RunStage ==
    /\ pc \in {"synthesis", "answer"}
    /\ entries' = Append(entries, Entry(pc, state))
    /\ \/ \E out \in OutputsOf(pc) :
            /\ state' = NodeFn(pc, state, out)
            /\ calls' = Append(calls, Call(ChainOf(pc), TRUE, Some(out)))
            /\ pc' = "route"
            /\ UNCHANGED error
       \/ /\ calls' = Append(calls, Call(ChainOf(pc), FALSE, None))
          /\ pc' = "raised"
          /\ error' = Some(ChainOf(pc))
          /\ UNCHANGED state
    /\ UNCHANGED <<result, arg, host>>

\* run_deep_research after invoke returned: the projection of the result.
Return ==
    /\ pc = "end"
    /\ result' = Some(Projection(state))
    /\ pc' = "returned"
    /\ UNCHANGED <<state, calls, entries, error, arg, host>>

Next ==
    \/ StartWorkflow
    \/ ResearchSearch
    \/ ResearchLLM
    \/ Route
    \/ RunStage
    \/ Return

Spec == Init /\ [][Next]_vars

\* A run is synchronous: a step that can be taken is taken.
FairSpec == Spec /\ WF_vars(Next)

-----------------------------------------------------------------------------
(* A node function or the router applied to a state built by its caller    *)

\* Values a caller may have stored in search_results before the call.
PresetSearchResults ==
    {None, Some(<<>>)} \cup {Some(<<r>>) : r \in SearchRecords}

\* GraphState(query) with search_results and current_state assigned by the
\* caller; the node functions and the router are module-level functions
\* that take any such dict.
ConstructedStates ==
    { [GraphState(q) EXCEPT !.search_results = sr, !.current_state = cs] :
        q \in Queries, sr \in PresetSearchResults, cs \in AgentState }

\* The graph entered at one of its nodes on such a state.
StageInit ==
    /\ state \in ConstructedStates
    /\ arg = Some(state.query)
    /\ pc \in Nodes
    /\ calls = <<>>
    /\ entries = <<>>
    /\ error = None
    /\ result = None
    /\ request = None
    /\ response = None
    /\ others = <<>>

StageSpec == StageInit /\ [][Next]_vars

-----------------------------------------------------------------------------
(* The endpoint POST /api/deep-research of src/flask_api.py                *)

\* A request body as request.get_json(force=True) sees it: bytes that are
\* not JSON, or a JSON value.  kind names the value's type; of number, items
\* and fields only the one of that type matters.  utf8 tells whether
\* request.data.decode("utf-8") succeeds on the bytes; the code decodes them
\* only when they are not JSON.
Body(kind, utf8, number, items, fields) ==
    [kind |-> kind, utf8 |-> utf8, number |-> number, items |-> items,
     fields |-> fields]

\* A JSON object: a dict over any of these keys, with string values.
BodyKeys == {"query", "note"}
BodyStrings == Queries \cup {""}
Objects == UNION {[D -> BodyStrings] : D \in SUBSET BodyKeys}

Bodies ==
    {Body("invalid", u, 0, <<>>, <<>>) : u \in BOOLEAN}
        \cup {Body("null", TRUE, 0, <<>>, <<>>)}
        \cup {Body("number", TRUE, n, <<>>, <<>>) : n \in {0, 5}}
        \cup {Body("array", TRUE, 0, a, <<>>) : a \in {<<>>, <<"tla">>, <<"query">>}}
        \cup {Body("object", TRUE, 0, <<>>, o) : o \in Objects}

\* `not data`
BodyFalsy(data) ==
    \/ data.kind = "null"
    \/ data.kind = "number" /\ data.number = 0
    \/ data.kind = "array" /\ data.items = <<>>
    \/ data.kind = "object" /\ DOMAIN data.fields = {}

\* The test `not data or "query" not in data or not data["query"]`, on a
\* parsed body: "reject" when it is true, "accept" when it is false,
\* "TypeError" when evaluating it raises (`in` on a number, a str index into
\* a list).
Validate(data) ==
    IF BodyFalsy(data) THEN "reject"
    ELSE IF data.kind = "number" THEN "TypeError"
    ELSE IF data.kind = "array"
         THEN IF \A i \in 1..Len(data.items) : data.items[i] # "query"
              THEN "reject" ELSE "TypeError"
    ELSE IF "query" \notin DOMAIN data.fields THEN "reject"
    ELSE IF data.fields["query"] = "" THEN "reject"
    ELSE "accept"

Response(status, body) == [status |-> status, body |-> body]

\* A request has arrived; run_deep_research has not been called.
HttpInit ==
    /\ request \in {Some(b) : b \in Bodies}
    /\ response = None
    /\ pc = "request"
    /\ state = None
    /\ arg = None
    /\ calls = <<>>
    /\ entries = <<>>
    /\ error = None
    /\ result = None
    /\ others = <<>>

\* deep_research_endpoint up to the call of run_deep_research: the body is
\* parsed and tested.  When get_json raises, the handler builds the 400 body
\* from request.data.decode("utf-8"); when that raises in turn
\* (UnicodeDecodeError), the exception leaves the view.  An exception of the
\* test is outside both try blocks.  The server answers an exception that
\* leaves the view with 500.
Endpoint ==
    /\ pc = "request"
    /\ LET data == Val(request)
           verdict == IF data.kind = "invalid"
                      THEN IF data.utf8 THEN "invalid" ELSE "UnicodeDecodeError"
                      ELSE Validate(data)
       IN  IF verdict = "accept"
           THEN /\ state' = GraphState(data.fields["query"])
                /\ arg' = Some(data.fields["query"])
                /\ pc' = "start"
                /\ UNCHANGED response
           ELSE /\ response' =
                      IF verdict = "invalid"
                      THEN Some(Response(400, [error |-> "Invalid JSON"]))
                      ELSE IF verdict = "reject"
                      THEN Some(Response(400, [error |-> "A non-empty 'query' is required"]))
                      ELSE Some(Response(500, [error |-> "Internal Server Error"]))
                /\ pc' = "responded"
                /\ UNCHANGED <<state, arg>>
    /\ UNCHANGED <<calls, entries, error, result, request, others>>

\* deep_research_endpoint after run_deep_research: 200 with its result, or
\* 500 when it raised.
Respond ==
    /\ pc \in {"returned", "raised"}
    /\ response' =
          IF pc = "returned"
          THEN Some(Response(200, Val(result)))
          ELSE Some(Response(500, [error |-> "An error occurred during research"]))
    /\ pc' = "responded"
    /\ UNCHANGED <<state, calls, entries, error, result, arg, request, others>>

HttpNext ==
    \/ Endpoint
    \/ Respond
    \/ Next

HttpSpec == HttpInit /\ [][HttpNext]_vars

-----------------------------------------------------------------------------
(* Two calls of run_deep_research in progress at once                      *)

\* The run taking steps, as one value.
Run ==
    [state |-> state, pc |-> pc, calls |-> calls, entries |-> entries,
     error |-> error, result |-> result, arg |-> arg]

\* Mutant of NewRun: the second call works on the dict of the run in
\* progress instead of a GraphState of its own.
NewRun_reuse ==
    /\ others = <<>>
    /\ others' = <<Run>>
    /\ \E q \in Queries :
          /\ state' = [state EXCEPT !.query = q]
          /\ arg' = Some(q)
    /\ pc' = "start"
    /\ calls' = <<>>
    /\ entries' = <<>>
    /\ error' = None
    /\ result' = None
    /\ UNCHANGED <<request, response>>

\* A second call of run_deep_research while the first is in progress (or
\* over): it builds its own GraphState(query) and invokes the graph on it.
NewRun ==
    /\ others = <<>>
    /\ others' = <<Run>>
    /\ \E q \in Queries :
          /\ state' = GraphState(q)
          /\ arg' = Some(q)
    /\ pc' = "start"
    /\ calls' = <<>>
    /\ entries' = <<>>
    /\ error' = None
    /\ result' = None
    /\ UNCHANGED <<request, response>>

\* The host turns from one run to the other; each carries its own state.
Switch ==
    /\ others # <<>>
    /\ others' = <<Run>>
    /\ state' = others[1].state
    /\ pc' = others[1].pc
    /\ calls' = others[1].calls
    /\ entries' = others[1].entries
    /\ error' = others[1].error
    /\ result' = others[1].result
    /\ arg' = others[1].arg
    /\ UNCHANGED <<request, response>>

\* With two runs in progress the searches are kept to the empty list, one
\* record with no optional key and one record with every key.
SmallSearch ==
    \/ state.search_results = None
    \/ /\ Len(Val(state.search_results)) <= 1
       /\ \A i \in 1..Len(Val(state.search_results)) :
             /\ DOMAIN Val(state.search_results)[i] \in {{"content"}, ResultKeys}
             /\ get(Val(state.search_results)[i], "title", "Paris") = "Paris"

\* Node "research" up to the chain call, with such a search.
SmallResearchSearch == ResearchSearch /\ SmallSearch'

MultiNext ==
    \/ NewRun
    \/ Switch
    \/ StartWorkflow
    \/ SmallResearchSearch
    \/ ResearchLLM
    \/ Route
    \/ RunStage
    \/ Return

MultiSpec == Init /\ [][MultiNext]_vars

-----------------------------------------------------------------------------
(* Vocabulary of the properties                                            *)

Chains == {"researcher", "synthesizer", "drafter"}

\* Number of calls of one callee recorded so far.
CallsTo(callee) == Len(SelectSeq(calls, LAMBDA c : c.callee = callee))

\* Number of times one node has been entered so far.
EntriesOf(node) == Len(SelectSeq(entries, LAMBDA e : e.node = node))

\* The stages entered after the start stage, in order.
StageEntries ==
    LET after == SelectSeq(entries, LAMBDA e : e.node # "start")
    IN  [i \in 1..Len(after) |->
            [node |-> after[i].node, observed |-> after[i].observed]]

\* The successor of a tag in the order RESEARCH, SYNTHESIS, ANSWER, COMPLETE.
Successor(cs) ==
    IF cs = RESEARCH THEN SYNTHESIS
    ELSE IF cs = SYNTHESIS THEN ANSWER
    ELSE COMPLETE

IsPrefix(a, b) == Len(a) <= Len(b) /\ \A i \in 1..Len(a) : a[i] = b[i]

\* A step in which a node function runs to its end.
StageCompletes ==
    \/ pc = "start" /\ pc' = "research"
    \/ pc \in {"research_llm", "synthesis", "answer"} /\ pc' = "route"

SourceKeys == {"title", "url", "published_date"}
Placeholder ==
    [title |-> "Unknown Title", url |-> "Unknown URL", published_date |-> "Unknown Date"]

-----------------------------------------------------------------------------
(* Properties                                                              *)

\* C1: a run in which every external call succeeds returns a workflow_path
\* of exactly three entries: research completed, synthesis completed, answer
\* drafting completed, in that order.
C1_WorkflowPathThreeInOrder ==
    pc = "returned" =>
        Val(result).workflow_path =
            <<"Research phase completed.",
              "Synthesis phase completed.",
              "Answer drafting phase completed.">>

\* C2: every change of current_state is a step to the immediate successor in
\* the order RESEARCH, SYNTHESIS, ANSWER, COMPLETE.
C2_CurrentStateStepsToSuccessor ==
    [][state'.current_state # state.current_state
        => state'.current_state = Successor(state.current_state)]_vars

\* C3: in a run in which every external call succeeds, the stages entered
\* after start are research, synthesis and answer, each once, and they
\* observe current_state RESEARCH, SYNTHESIS and ANSWER on entry.
C3_StagesObserveEachTagInOrder ==
    pc = "returned" =>
        StageEntries = <<[node |-> "research", observed |-> RESEARCH],
                         [node |-> "synthesis", observed |-> SYNTHESIS],
                         [node |-> "answer", observed |-> ANSWER]>>

\* C4: when the drafting chain raises, research_notes and
\* synthesized_research are set, final_answer is unset, and the run ends in
\* the exception with no result.
C4_DraftingFailureAfterBothStages ==
    error = Some("drafter") =>
        /\ IsSet(state.research_notes)
        /\ IsSet(state.synthesized_research)
        /\ state.final_answer = None
        /\ pc = "raised"
        /\ result = None

\* C5: the search is called at most once in a run, and exactly once in a run
\* that reaches completion.
C5_SearchAtMostOnce ==
    /\ CallsTo("search") <= 1
    /\ (state.current_state = COMPLETE \/ pc \in {"end", "returned"})
           => CallsTo("search") = 1

\* C5 witness: a run returned after a search that gave an empty list.
C5_Witness ==
    /\ pc = "returned"
    /\ CallsTo("search") = 1
    /\ state.search_results = Some(<<>>)

\* C6: when the search raises, the run is over, no chain has been invoked,
\* and current_state is still RESEARCH.
C6_SearchFailureBeforeAnyChain ==
    error = Some("search") =>
        /\ pc = "raised"
        /\ \A c \in Chains : CallsTo(c) = 0
        /\ state.current_state = RESEARCH
        /\ result = None

\* C6 witness: the search was called and raised.
C6_Witness ==
    /\ error = Some("search")
    /\ calls = <<Call("search", FALSE, None)>>

\* C7, as claimed: whenever search_results is set, sources is as long as it.
C7_SourcesMatchWheneverSearchSet ==
    IsSet(state.search_results) =>
        Len(state.sources) = Len(Val(state.search_results))

\* C7, amended: once the research stage has completed (research_notes is
\* set), search_results is set and sources is as long as it; from the return
\* of the search until then, also when the research chain raises, sources is
\* still the empty list of construction.
C7_SourcesMatchOnceResearchCompleted ==
    /\ IsSet(state.research_notes) =>
           /\ IsSet(state.search_results)
           /\ Len(state.sources) = Len(Val(state.search_results))
    /\ ~IsSet(state.research_notes) => state.sources = <<>>

\* C7 witness: research completed on a search of two records.
C7_Witness ==
    /\ IsSet(state.research_notes)
    /\ Len(Val(state.search_results)) = 2
    /\ Len(state.sources) = 2

\* What C8 says of one source: it has exactly the three fields, each the
\* record's field when the record has it and the placeholder when not.
SourceMirrors(src, rec) ==
    /\ DOMAIN src = SourceKeys
    /\ \A k \in SourceKeys :
          /\ k \in DOMAIN rec => src[k] = rec[k]
          /\ k \notin DOMAIN rec => src[k] = Placeholder[k]

\* C8, as claimed: after research, every source mirrors its record and no
\* field of a source is empty.
C8_SourcesMirrorAndNeverEmpty ==
    IsSet(state.research_notes) =>
        /\ Len(state.sources) = Len(Val(state.search_results))
        /\ \A i \in 1..Len(state.sources) :
              /\ SourceMirrors(state.sources[i], Val(state.search_results)[i])
              /\ \A k \in SourceKeys : state.sources[i][k] # ""

\* C8, amended: after research, every source mirrors its record, and a
\* field of a source is empty only where the record has that field empty.
C8_SourcesMirrorSearchResults ==
    IsSet(state.research_notes) =>
        /\ Len(state.sources) = Len(Val(state.search_results))
        /\ \A i \in 1..Len(state.sources) :
              /\ SourceMirrors(state.sources[i], Val(state.search_results)[i])
              /\ \A k \in SourceKeys :
                    state.sources[i][k] = "" =>
                        /\ k \in DOMAIN Val(state.search_results)[i]
                        /\ Val(state.search_results)[i][k] = ""

\* C8 witness: research completed on a record with every field and a record
\* with none of the three.
C8_Witness ==
    /\ IsSet(state.research_notes)
    /\ Len(state.sources) = 2
    /\ DOMAIN Val(state.search_results)[1] = ResultKeys
    /\ state.sources[1].title = "Paris"
    /\ DOMAIN Val(state.search_results)[2] = {"content"}
    /\ state.sources[2] = Placeholder

\* C9: every step leaves the old messages as a prefix of the new, and a step
\* that completes a stage makes messages strictly longer.
C9_MessagesAppendOnly ==
    [][/\ IsPrefix(state.messages, state'.messages)
       /\ StageCompletes => Len(state'.messages) > Len(state.messages)]_vars

\* C9 witness: a returned run, whose messages are the start notice, the
\* search notice and one completion notice per stage that ran.
C9_Witness ==
    /\ pc = "returned"
    /\ Len(state.messages) = 2 + Len(StageEntries)
    /\ state.messages[1].role = "system"

\* What C10 says of the end of a run whose calls all returned.
CompletedRun ==
    /\ pc = "returned"
    /\ state.current_state = COMPLETE
    /\ calls[Len(calls)].callee = "drafter"
    /\ state.final_answer = calls[Len(calls)].out
    /\ IsSet(state.final_answer)
    /\ result = Some(Projection(state))
    /\ \A n \in Nodes : EntriesOf(n) <= 1

\* A run left by the exception of an external call.
ExternalFailure ==
    /\ pc = "raised"
    /\ \E c \in Chains \cup {"search"} : error = Some(c)
    /\ ~calls[Len(calls)].ok

\* C10: every run either is left by the exception of an external call or
\* eventually returns, with current_state COMPLETE, final_answer the
\* drafting chain's output, the projection of the final state as result,
\* and no stage entered more than once.
C10_SuccessfulRunCompletes == <>(CompletedRun \/ ExternalFailure)

\* C10 witness: a run that returned complete.
C10_Witness ==
    /\ pc = "returned"
    /\ state.current_state = COMPLETE
    /\ \A i \in 1..Len(calls) : calls[i].ok

\* C11: in every state of a run, query is the string run_deep_research was
\* called with, and so is the query of the result it returns.
C11_QueryIsTheInput ==
    /\ arg = Some(state.query)
    /\ pc = "returned" => Some(Val(result).query) = arg

\* C11 witness: a run returned for the query "tla".
C11_Witness ==
    /\ pc = "returned"
    /\ arg = Some("tla")
    /\ Val(result).query = "tla"

\* C14: the synthesis stage is entered with research_notes set and the
\* answer drafting stage with synthesized_research set (sources, a list
\* from construction on, is set in both).
C14_StagesEnteredWithInputsSet ==
    /\ pc = "synthesis" => IsSet(state.research_notes)
    /\ pc = "answer" => IsSet(state.synthesized_research)

\* C17: final_answer is set exactly when current_state is COMPLETE.
C17_FinalAnswerIffComplete ==
    IsSet(state.final_answer) <=> state.current_state = COMPLETE

\* C17 witness: the drafting stage has completed.
C17_Witness ==
    /\ state.current_state = COMPLETE
    /\ IsSet(state.final_answer)
    /\ calls[Len(calls)] = Call("drafter", TRUE, state.final_answer)

\* The state the research stage was entered with.
ResearchEntry ==
    LET into == SelectSeq(entries, LAMBDA e : e.node = "research")
    IN  into[Len(into)].snapshot

\* C18, as claimed: when the search or the research chain raises,
\* current_state is RESEARCH and search_results, research_notes, sources and
\* messages are as on entry to the stage.
C18_ResearchFailureLeavesEntryState ==
    (error = Some("search") \/ error = Some("researcher")) =>
        /\ state.current_state = RESEARCH
        /\ state.search_results = ResearchEntry.search_results
        /\ state.research_notes = ResearchEntry.research_notes
        /\ state.sources = ResearchEntry.sources
        /\ state.messages = ResearchEntry.messages

\* C18, amended: when the search raises, the state is as on entry to the
\* stage; when the research chain raises, current_state is RESEARCH and
\* research_notes and sources are as on entry, while search_results holds
\* what the search of this stage returned and messages has gained the
\* notice of that search.
C18_ResearchFailureKeepsSearch ==
    /\ error = Some("search") => state = ResearchEntry
    /\ error = Some("researcher") =>
          /\ state.current_state = RESEARCH
          /\ state.query = ResearchEntry.query
          /\ state.research_notes = ResearchEntry.research_notes
          /\ state.sources = ResearchEntry.sources
          /\ state.synthesized_research = ResearchEntry.synthesized_research
          /\ state.final_answer = ResearchEntry.final_answer
          /\ calls[Len(calls) - 1].callee = "search"
          /\ state.search_results = calls[Len(calls) - 1].out
          /\ state.messages =
                 Append(ResearchEntry.messages,
                        Message("system",
                                "Performed initial search for: " \o state.query))

\* C18 witness: the research chain raised after a search that returned two
\* records.
C18_Witness ==
    /\ error = Some("researcher")
    /\ Len(Val(state.search_results)) = 2
    /\ ResearchEntry.search_results = None

\* Some external call of the run has raised.
Failed == \E i \in 1..Len(calls) : ~calls[i].ok

\* C19: the call that raised is the last call of the run, the run is over
\* with no result, no step follows, and no callee is called twice.
C19_FailureEndsRun ==
    /\ [](Failed =>
            /\ \A i \in 1..Len(calls) : ~calls[i].ok => i = Len(calls)
            /\ pc = "raised"
            /\ result = None)
    /\ [](\A c \in Chains \cup {"search"} : CallsTo(c) <= 1)
    /\ [][~Failed]_vars

\* C19 witness: the drafter raised after the search and the research chain
\* returned.
C19_Witness ==
    /\ Failed
    /\ Len(calls) = 3
    /\ calls[3].callee = "drafter"
    /\ pc = "raised"

\* C15: the router sends RESEARCH to the synthesis stage, SYNTHESIS to the
\* answer stage and every other value to the end of the run, and what it
\* returns is always a registered node or the END signal.
C15_RouterTable ==
    pc = "route" =>
        /\ route_next_step(state) \in Nodes \cup {END}
        /\ state.current_state = RESEARCH => route_next_step(state) = "synthesis"
        /\ state.current_state = SYNTHESIS => route_next_step(state) = "answer"
        /\ state.current_state \notin {RESEARCH, SYNTHESIS}
               => route_next_step(state) = END

\* C16: the research stage entered with search_results set, the empty list
\* included, makes no search call, leaves search_results as it is and
\* appends no search notice.
C16_SetResultsAreNotSearchedAgain ==
    [][(pc = "research" /\ IsSet(state.search_results)) =>
           /\ calls' = calls
           /\ state'.search_results = state.search_results
           /\ state'.messages = state.messages]_vars

\* What C13 calls a request to reject: the body is not valid JSON, or it
\* has no query, or its query is empty.
NotJsonOrNoQuery(data) ==
    \/ data.kind # "object"
    \/ "query" \notin DOMAIN data.fields
    \/ data.fields["query"] = ""

\* C13: a request whose body is not valid JSON, or whose query is missing or
\* empty, is answered 400, and run_deep_research is not called for it: no
\* search and no chain call is made.
C13_BadRequestIsRejected ==
    (IsSet(request) /\ NotJsonOrNoQuery(Val(request))) =>
        /\ arg = None
        /\ calls = <<>>
        /\ pc \in {"request", "responded"}
        /\ IsSet(response) => Val(response).status = 400

\* What one external call that returned does to the state of its run.
ApplyCall(s, c) ==
    IF ~c.ok THEN s
    ELSE IF c.callee = "search" THEN research_search(s, Val(c.out))
    ELSE IF c.callee = "researcher" THEN research_finish(s, Val(c.out))
    ELSE IF c.callee = "synthesizer" THEN run_synthesis(s, Val(c.out))
    ELSE run_answer_drafting(s, Val(c.out))

RECURSIVE Replay(_, _)
Replay(s, cs) == IF cs = <<>> THEN s ELSE Replay(ApplyCall(s, Head(cs)), Tail(cs))

\* The state a run has when it runs alone on its query and gets the
\* external responses recorded for it.
Alone(r) ==
    Replay(IF r.entries = <<>> THEN GraphState(Val(r.arg))
                               ELSE start_workflow(GraphState(Val(r.arg))),
           r.calls)

\* C12: with two runs interleaved in any order, each run's state (messages,
\* sources, current_state and the rest) and result are those of the run
\* alone with the same external responses, and a step of one run, the
\* start of a run and a turn of the host leave the other run as it is.
C12_RunsAreIsolated ==
    /\ [](\A r \in {Run} \cup {others[i] : i \in 1..Len(others)} :
            /\ r.state = Alone(r)
            /\ r.pc = "returned" => r.result = Some(Projection(Alone(r))))
    /\ [][\/ others' = others
          \/ others # <<>> /\ others' = <<Run>> /\ Run' = others[1]
          \/ others = <<>> /\ others' = <<Run>>]_vars

\* C12 witness: two runs on different queries have both returned, the one
\* that stood aside after a search of one record, the other after an empty
\* search.
C12_Witness ==
    /\ others # <<>>
    /\ pc = "returned"
    /\ others[1].pc = "returned"
    /\ others[1].arg # arg
    /\ Len(Val(others[1].state.search_results)) = 1
    /\ Len(Val(state.search_results)) = 0

====
